---- MODULE Spec2Model ----
(***************************************************************************)
(* State-machine model of the App component of golf-course-recommender     *)
(* (the detail-capable variant, src/unnamed/part_000; the basic variant    *)
(* src/frontend/src/App.jsx has the same fetch lifecycle and no selection   *)
(* state).                                                                  *)
(*                                                                          *)
(* Granularity: every setter call is one step, so the states between two    *)
(* consecutive setter calls of one handler are states of the model.  A      *)
(* handler runs to completion: while one is between two of its lines no      *)
(* other event is taken (single-threaded event loop).                       *)
(***************************************************************************)
EXTENDS Integers, Sequences, FiniteSets, TLC

VARIABLES
    courses,          \* useState([])      part_000:6
    loading,          \* useState(true)    part_000:7
    error,            \* useState(null)    part_000:8
    selectedCourse,   \* useState(null)    part_000:9
    showModal,        \* useState(false)   part_000:10
    pc,               \* position of fetchCourses: "init","l15","l16","l17","l19","l20","done"
    hpc,              \* position of the card onClick handler: "idle","l47"
    outcome,          \* how the request settled (the awaited promise's result)
    mounted,          \* the host has not torn the component down
    faulted,          \* a render threw and React removed the tree
    requests,         \* history: number of axios.get calls issued
    lateSetterCalls,  \* history: setter calls made while the component is torn down
    unmountedPending, \* history: the host unmounted while the request was pending
    lastEvent,        \* history: target of the most recent user click
    dismissed,        \* history: a backdrop/close click happened since the last card click
    lastClicked,      \* history: course of the most recently clicked card
    handlersRun,      \* history: the onClick handlers the last overlay click ran, in order
    nEvents           \* history: number of user clicks taken

vars == <<courses, loading, error, selectedCourse, showModal, pc, hpc, outcome,
          mounted, faulted, requests, lateSetterCalls, unmountedPending,
          lastEvent, dismissed, lastClicked, handlersRun, nEvents>>

state == <<courses, loading, error, selectedCourse, showModal>>
history == <<lastEvent, dismissed, lastClicked, handlersRun, nEvents>>

----------------------------------------------------------------------------
\* Bounds of the model.
MaxCourses == 2     \* course ids are 1..MaxCourses
MaxLen == 2         \* a fetched collection has at most MaxLen records
MaxEvents == 4      \* user clicks per lifetime

\* difficulty_rating is "/5" in the source.
MaxRating == 5

----------------------------------------------------------------------------
\* JavaScript values, as records tagged with their type.
Null == [type |-> "null"]
Str(s) == [type |-> "string", value |-> s]
Course(i, r) == [type |-> "object", id |-> i, difficulty_rating |-> r]
Arr(s) == [type |-> "array", items |-> s]
PlainObject == [type |-> "object", error |-> "not a collection"]

\* JavaScript truthiness, as used by `if (error)` and `showModal && selectedCourse`.
Truthy(v) == /\ v.type # "null"
             /\ ~(v.type = "string" /\ v.value = "")

Catalog == { Course(i, r) : i \in 1..MaxCourses, r \in 0..MaxRating }

RECURSIVE SeqsUpTo(_, _)
SeqsUpTo(S, n) == IF n = 0 THEN { <<>> }
                  ELSE LET shorter == SeqsUpTo(S, n - 1)
                       IN shorter \cup { Append(s, x) : s \in shorter, x \in S }

\* Bodies a success status can carry.  axios hands the decoded body over as
\* response.data; a body that is not valid JSON arrives as the raw string.
ArrayBodies == { Arr(s) : s \in SeqsUpTo(Catalog, MaxLen) }
NonArrayBodies == { Str("<html>"), PlainObject, Null }
Bodies == ArrayBodies \cup NonArrayBodies

\* Details of a rejected request: transport errors and non-success statuses.
FailureDetails == { "Network Error", "timeout of 0ms exceeded",
                    "Request failed with status code 404",
                    "Request failed with status code 500" }

Pending == [kind |-> "pending"]
Resolved(b) == [kind |-> "resolved", data |-> b]
Rejected(d) == [kind |-> "rejected", detail |-> d]

GenericMessage == "Failed to fetch courses"

----------------------------------------------------------------------------
\* The render function (part_000:27-93).
NoView == [view |-> "none", message |-> "", cards |-> <<>>, overlay |-> Null]

RenderEmptyAsError ==
    IF loading THEN [NoView EXCEPT !.view = "loading"]
    ELSE IF Truthy(error) \/ courses = Arr(<<>>)
         THEN [NoView EXCEPT !.view = "error",
                             !.message = IF Truthy(error) THEN error.value ELSE ""]
    ELSE IF courses.type # "array" THEN [NoView EXCEPT !.view = "fault"]
    ELSE [NoView EXCEPT !.view = "collection", !.cards = courses.items,
                        !.overlay = IF showModal /\ Truthy(selectedCourse)
                                    THEN selectedCourse ELSE Null]

Render ==
    IF loading THEN [NoView EXCEPT !.view = "loading"]                      \* line 27
    ELSE IF Truthy(error)
         THEN [NoView EXCEPT !.view = "error", !.message = error.value]    \* line 28
    ELSE IF courses.type # "array"
         THEN [NoView EXCEPT !.view = "fault"]   \* line 41: courses.map is not a function
    ELSE [NoView EXCEPT !.view = "collection", !.cards = courses.items,    \* lines 41-59
                        !.overlay = IF showModal /\ Truthy(selectedCourse) \* line 64
                                    THEN selectedCourse ELSE Null]

\* What is on screen: nothing once the tree is gone.
Screen == IF mounted /\ ~faulted THEN Render ELSE NoView

\* A setter takes effect only on a live component; React ignores it otherwise.
Live == mounted /\ ~faulted

\* The spec's FetchState, read off the component state.
FetchState == IF loading THEN "Pending"
              ELSE IF Truthy(error) THEN "Failed" ELSE "Ready"

OverlayShown == Screen.view = "collection" /\ Screen.overlay # Null

----------------------------------------------------------------------------
\* JavaScript Number arithmetic of line 76: IEEE-754 binary64, round to
\* nearest, ties to even.  A nonzero double is [sig, exp] with sig its
\* Precision significand bits, most significant (a 1) first, and value
\* sig * 2^exp; zero has the empty significand.  The operands of line 76 are
\* integer-valued, so the operations take them as integers.
Precision == 53

Zero == [sig |-> <<>>, exp |-> 0]

\* Values are bound through one-element sets ({ F(x) : x \in {e} }) where an
\* intermediate result is used many times, so that it is computed once.

\* The binary digits of n, 0 < n < 2^30, most significant first.
BinaryOf(n) ==
    IF n = 0 THEN <<>>
    ELSE LET len == CHOOSE l \in 1..30 : 2^(l - 1) <= n /\ n < 2^l
         IN [i \in 1..len |-> (n \div 2^(len - i)) % 2]

Zeros(n) == [i \in 1..n |-> 0]

\* bits + 1, with the carry out of the most significant bit.
Inc(bits) ==
    LET n == Len(bits)
        zeros == { i \in 1..n : bits[i] = 0 }
    IN IF zeros = {} THEN [bits |-> Zeros(n), carry |-> 1]
       ELSE LET last == CHOOSE i \in zeros : \A j \in zeros : j <= i
            IN [bits |-> [i \in 1..n |-> IF i < last THEN bits[i]
                                         ELSE IF i = last THEN 1 ELSE 0],
                carry |-> 0]

\* Round an exact value kept * 2^exp + (guard, sticky below it) to nearest, ties to even.
RoundNearestEven(kept, guard, sticky, exp) ==
    IF guard = 1 /\ (sticky \/ kept[Len(kept)] = 1)
    THEN LET r == Inc(kept)
         IN IF r.carry = 1
            THEN [sig |-> <<1>> \o SubSeq(r.bits, 1, Len(kept) - 1), exp |-> exp + 1]
            ELSE [sig |-> r.bits, exp |-> exp]
    ELSE [sig |-> kept, exp |-> exp]

\* Round an exact significand of any length (leading bit 1) times 2^exp.
RoundBits(bits, exp) ==
    LET n == Len(bits)
    IN IF n <= Precision
       THEN [sig |-> bits \o Zeros(Precision - n), exp |-> exp - (Precision - n)]
       ELSE RoundNearestEven(SubSeq(bits, 1, Precision), bits[Precision + 1],
                             \E i \in (Precision + 2)..n : bits[i] = 1,
                             exp + (n - Precision))

\* The double of a non-negative integer below 2^30 (exact).
FromInt(n) == IF n = 0 THEN Zero ELSE RoundBits(BinaryOf(n), 0)

\* Scale a/b by powers of two until b <= a < 2b: a0/b0 = (a/b) * 2^e.
RECURSIVE Normalize(_, _, _)
Normalize(a, b, e) ==
    IF a < b THEN Normalize(2 * a, b, e - 1)
    ELSE IF a >= 2 * b THEN Normalize(a, 2 * b, e + 1)
    ELSE [a |-> a, b |-> b, e |-> e]

\* 2^i mod b, for 0 <= i <= 54 and b < 2^15, without leaving 32-bit integers.
PowerOfTwoMod(i, b) ==
    IF i <= 27 THEN 2^i % b ELSE ((2^27 % b) * (2^(i - 27) % b)) % b

\* The first n bits of the binary expansion of rem/b (rem < b < 2^15), and
\* whether anything nonzero follows them.  Bit i is floor(rem * 2^i / b) mod 2;
\* the remainder after i bits is rem * 2^i mod b.
QuotientBits(rem, b, n) ==
    LET remAfter(i) == (rem * PowerOfTwoMod(i, b)) % b
    IN [bits |-> [i \in 1..n |-> IF 2 * remAfter(i - 1) >= b THEN 1 ELSE 0],
        inexact |-> remAfter(n) # 0]

\* a / b for integers a >= 0, b > 0, correctly rounded.
FDivInt(a, b) ==
    IF a = 0 THEN Zero
    ELSE CHOOSE d \in
           { RoundNearestEven(<<1>> \o SubSeq(q.bits, 1, Precision - 1),
                              q.bits[Precision], q.inexact,
                              n.e - (Precision - 1)) :
               q \in { QuotientBits(n.a - n.b, n.b, Precision) :
                         n \in { Normalize(a, b, 0) } },
               n \in { Normalize(a, b, 0) } } : TRUE

\* bits * n as a bit sequence, for a small integer n >= 1 (long multiplication
\* from the least significant bit; carry[i] is the carry out of the i lowest bits).
MulBits(bits, n) ==
    LET k == Len(bits)
        carry[i \in 0..k] ==
            IF i = 0 THEN 0 ELSE (bits[k - i + 1] * n + carry[i - 1]) \div 2
    IN BinaryOf(carry[k]) \o [j \in 1..k |-> (bits[j] * n + carry[k - j]) % 2]

\* d * n for a double d >= 0 and an integer n >= 1, correctly rounded.
FMulInt(d, n) ==
    CHOOSE y \in
      { IF x = Zero THEN Zero
        ELSE CHOOSE z \in { RoundBits(p, x.exp) : p \in { MulBits(x.sig, n) } } : TRUE :
          x \in { d } } : TRUE

RECURSIVE BitsValue(_)
BitsValue(bits) ==
    IF bits = <<>> THEN 0
    ELSE 2 * BitsValue(SubSeq(bits, 1, Len(bits) - 1)) + bits[Len(bits)]

\* The integer a double equals, or -1 when it is no integer below 2^30.
IntValue(d) ==
    IF d = Zero THEN 0
    ELSE LET whole == Precision + d.exp
         IN IF /\ whole \in 1..30
               /\ \A i \in (whole + 1)..Precision : d.sig[i] = 0
            THEN BitsValue(SubSeq(d.sig, 1, whole))
            ELSE -1

RatingWidthOutOfTen(r) == FMulInt(FDivInt(r, 10), 100)

\* (selectedCourse.difficulty_rating / 5) * 100   (line 76)
RatingWidth(r) == FMulInt(FDivInt(r, 5), 100)

\* Line 76 for each rating a course of the catalog can carry.
RatingWidths == { <<r, RatingWidth(r)>> : r \in 0..MaxRating }

\* The --rating-width of the rating bar in the rendered overlay (lines 75-77).
RatingBarWidth ==
    IF OverlayShown
    THEN (CHOOSE p \in RatingWidths : p[1] = Screen.overlay.difficulty_rating)[2]
    ELSE Zero

----------------------------------------------------------------------------
Init ==
    /\ courses = Arr(<<>>)
    /\ loading = TRUE
    /\ error = Null
    /\ selectedCourse = Null
    /\ showModal = FALSE
    /\ pc = "init"
    /\ hpc = "idle"
    /\ outcome = Pending
    /\ mounted = TRUE
    /\ faulted = FALSE
    /\ requests = 0
    /\ lateSetterCalls = 0
    /\ unmountedPending = FALSE
    /\ lastEvent = "none"
    /\ dismissed = FALSE
    /\ lastClicked = Null
    /\ handlersRun = <<>>
    /\ nEvents = 0

\* No handler is between two of its lines: the event loop can take an event.
Idle == pc \in {"l15", "done"} /\ hpc = "idle"

Late == IF Live THEN lateSetterCalls ELSE lateSetterCalls + 1

MountEveryRender ==
    /\ pc = "init" \/ (Idle /\ pc = "done" /\ Live /\ requests < 2)
    /\ pc' = "l15"
    /\ requests' = requests + 1
    /\ UNCHANGED <<state, hpc, outcome, mounted, faulted, lateSetterCalls,
                   unmountedPending, history>>

\* useEffect(() => { ... fetchCourses() }, []) up to the await (lines 12-15, 24).
\* The empty dependency list makes the effect run after the first render only.
Mount ==
    /\ pc = "init"
    /\ pc' = "l15"
    /\ requests' = requests + 1
    /\ UNCHANGED <<state, hpc, outcome, mounted, faulted, lateSetterCalls,
                   unmountedPending, history>>

\* The awaited promise settles (line 15): resolved with the response of a
\* success status, rejected on a transport error or a non-success status.
Settle ==
    /\ pc = "l15"
    /\ hpc = "idle"
    /\ \/ \E b \in Bodies : outcome' = Resolved(b) /\ pc' = "l16"
       \/ \E d \in FailureDetails : outcome' = Rejected(d) /\ pc' = "l19"
    /\ UNCHANGED <<state, hpc, mounted, faulted, requests, lateSetterCalls,
                   unmountedPending, history>>

\* setCourses(response.data)   (line 16)
L16 ==
    /\ pc = "l16"
    /\ courses' = IF Live THEN outcome.data ELSE courses
    /\ lateSetterCalls' = Late
    /\ pc' = "l17"
    /\ UNCHANGED <<loading, error, selectedCourse, showModal, hpc, outcome,
                   mounted, faulted, requests, unmountedPending, history>>

L17FallsIntoCatch ==
    /\ pc = "l17"
    /\ loading' = IF Live THEN FALSE ELSE loading
    /\ lateSetterCalls' = Late
    /\ pc' = "l19"
    /\ UNCHANGED <<courses, error, selectedCourse, showModal, hpc, outcome,
                   mounted, faulted, requests, unmountedPending, history>>

\* setLoading(false)   (line 17).  The render this triggers evaluates
\* courses.map (line 41); on a value without map it throws and React removes
\* the tree.  With a synchronous root the throw surfaces inside the try block
\* and the catch block runs; with a batching root it is reported
\* asynchronously and fetchCourses has already returned.
L17 ==
    /\ pc = "l17"
    /\ loading' = IF Live THEN FALSE ELSE loading
    /\ lateSetterCalls' = Late
    /\ IF Live /\ courses.type # "array"
       THEN faulted' = TRUE /\ pc' \in {"l19", "done"}
       ELSE faulted' = faulted /\ pc' = "done"
    /\ UNCHANGED <<courses, error, selectedCourse, showModal, hpc, outcome,
                   mounted, requests, unmountedPending, history>>

L19LeaksDetail ==
    /\ pc = "l19"
    /\ error' = IF ~Live THEN error
                ELSE IF outcome.kind = "rejected" THEN Str(outcome.detail)
                ELSE Str("TypeError")
    /\ lateSetterCalls' = Late
    /\ pc' = "l20"
    /\ UNCHANGED <<courses, loading, selectedCourse, showModal, hpc, outcome,
                   mounted, faulted, requests, unmountedPending, history>>

\* setError('Failed to fetch courses')   (line 19)
L19 ==
    /\ pc = "l19"
    /\ error' = IF Live THEN Str(GenericMessage) ELSE error
    /\ lateSetterCalls' = Late
    /\ pc' = "l20"
    /\ UNCHANGED <<courses, loading, selectedCourse, showModal, hpc, outcome,
                   mounted, faulted, requests, unmountedPending, history>>

\* setLoading(false)   (line 20)
L20 ==
    /\ pc = "l20"
    /\ loading' = IF Live THEN FALSE ELSE loading
    /\ lateSetterCalls' = Late
    /\ pc' = "done"
    /\ UNCHANGED <<courses, error, selectedCourse, showModal, hpc, outcome,
                   mounted, faulted, requests, unmountedPending, history>>

\* The host tears the component down; nothing in the source cancels the request.
Unmount ==
    /\ Idle
    /\ mounted
    /\ ~faulted
    /\ mounted' = FALSE
    /\ unmountedPending' = (unmountedPending \/ pc = "l15")
    /\ UNCHANGED <<state, pc, hpc, outcome, faulted, requests, lateSetterCalls,
                   history>>

----------------------------------------------------------------------------
\* Click handling.

\* The elements a click on `target` bubbles through, innermost first
\* (lines 65-67: close-button inside modal-content inside modal-overlay).
Path(target) ==
    CASE target = "close"    -> <<"close-button", "modal-content", "modal-overlay">>
      [] target = "content"  -> <<"modal-content", "modal-overlay">>
      [] target = "backdrop" -> <<"modal-overlay">>

OverlayTargets == {"backdrop", "content", "close"}

OnClickNoStop(el) ==
    CASE el = "close-button"  -> [hide |-> TRUE,  stop |-> FALSE]
      [] el = "modal-content" -> [hide |-> FALSE, stop |-> FALSE]
      [] el = "modal-overlay" -> [hide |-> TRUE,  stop |-> FALSE]

OnClickCloseInert(el) ==
    CASE el = "close-button"  -> [hide |-> FALSE, stop |-> FALSE]
      [] el = "modal-content" -> [hide |-> FALSE, stop |-> TRUE]
      [] el = "modal-overlay" -> [hide |-> TRUE,  stop |-> FALSE]

\* The onClick handler of each overlay element: whether it calls
\* setShowModal(false) and whether it calls e.stopPropagation().
OnClick(el) ==
    CASE el = "close-button"  -> [hide |-> TRUE,  stop |-> FALSE]   \* line 67
      [] el = "modal-content" -> [hide |-> FALSE, stop |-> TRUE]    \* line 66
      [] el = "modal-overlay" -> [hide |-> TRUE,  stop |-> FALSE]   \* line 65

\* Event bubbling: run the handlers along the path until one stops propagation.
RECURSIVE Bubble(_, _, _)
Bubble(path, visible, ran) ==
    IF path = <<>> THEN [visible |-> visible, ran |-> ran]
    ELSE LET h == OnClick(Head(path))
             v == IF h.hide THEN FALSE ELSE visible
             r == Append(ran, Head(path))
         IN IF h.stop THEN [visible |-> v, ran |-> r]
            ELSE Bubble(Tail(path), v, r)

Dispatch(target) == Bubble(Path(target), showModal, <<>>)

CardClickShowsFirst(i) ==
    /\ Idle
    /\ nEvents < MaxEvents
    /\ Screen.view = "collection"
    /\ i \in 1..Len(Screen.cards)
    /\ showModal' = TRUE
    /\ hpc' = "l47"
    /\ lastEvent' = "card"
    /\ dismissed' = FALSE
    /\ lastClicked' = Screen.cards[i]
    /\ handlersRun' = <<"course-card">>
    /\ nEvents' = nEvents + 1
    /\ UNCHANGED <<courses, loading, error, selectedCourse, pc, outcome, mounted,
                   faulted, requests, lateSetterCalls, unmountedPending>>

CardClickSelectsFirstCard(i) ==
    /\ Idle
    /\ nEvents < MaxEvents
    /\ Screen.view = "collection"
    /\ i \in 1..Len(Screen.cards)
    /\ selectedCourse' = Screen.cards[1]
    /\ hpc' = "l47"
    /\ lastEvent' = "card"
    /\ dismissed' = FALSE
    /\ lastClicked' = Screen.cards[i]
    /\ handlersRun' = <<"course-card">>
    /\ nEvents' = nEvents + 1
    /\ UNCHANGED <<courses, loading, error, showModal, pc, outcome, mounted,
                   faulted, requests, lateSetterCalls, unmountedPending>>

CardClickKeepsStale(i) ==
    /\ Idle
    /\ nEvents < MaxEvents
    /\ Screen.view = "collection"
    /\ i \in 1..Len(Screen.cards)
    /\ selectedCourse' = IF selectedCourse = Null THEN Screen.cards[i]
                         ELSE selectedCourse
    /\ hpc' = "l47"
    /\ lastEvent' = "card"
    /\ dismissed' = FALSE
    /\ lastClicked' = Screen.cards[i]
    /\ handlersRun' = <<"course-card">>
    /\ nEvents' = nEvents + 1
    /\ UNCHANGED <<courses, loading, error, showModal, pc, outcome, mounted,
                   faulted, requests, lateSetterCalls, unmountedPending>>

CardClickMovesToFront(i) ==
    /\ Idle
    /\ nEvents < MaxEvents
    /\ Screen.view = "collection"
    /\ i \in 1..Len(Screen.cards)
    /\ selectedCourse' = Screen.cards[i]
    /\ courses' = Arr(<<Screen.cards[i]>> \o SubSeq(Screen.cards, 1, i - 1)
                         \o SubSeq(Screen.cards, i + 1, Len(Screen.cards)))
    /\ hpc' = "l47"
    /\ lastEvent' = "card"
    /\ dismissed' = FALSE
    /\ lastClicked' = Screen.cards[i]
    /\ handlersRun' = <<"course-card">>
    /\ nEvents' = nEvents + 1
    /\ UNCHANGED <<loading, error, showModal, pc, outcome, mounted,
                   faulted, requests, lateSetterCalls, unmountedPending>>

\* A click on the i-th card, first line of its handler:
\* setSelectedCourse(course)   (line 46)
CardClick(i) ==
    /\ Idle
    /\ nEvents < MaxEvents
    /\ Screen.view = "collection"
    /\ i \in 1..Len(Screen.cards)
    /\ selectedCourse' = Screen.cards[i]
    /\ hpc' = "l47"
    /\ lastEvent' = "card"
    /\ dismissed' = FALSE
    /\ lastClicked' = Screen.cards[i]
    /\ handlersRun' = <<"course-card">>
    /\ nEvents' = nEvents + 1
    /\ UNCHANGED <<courses, loading, error, showModal, pc, outcome, mounted,
                   faulted, requests, lateSetterCalls, unmountedPending>>

L47Forgotten ==
    /\ hpc = "l47"
    /\ hpc' = "idle"
    /\ UNCHANGED <<state, pc, outcome, mounted, faulted, requests,
                   lateSetterCalls, unmountedPending, history>>

\* setShowModal(true)   (line 47)
L47 ==
    /\ hpc = "l47"
    /\ showModal' = TRUE
    /\ hpc' = "idle"
    /\ UNCHANGED <<courses, loading, error, selectedCourse, pc, outcome, mounted,
                   faulted, requests, lateSetterCalls, unmountedPending, history>>

\* A click on the backdrop, on the overlay content or on the close control
\* (lines 65-67); only possible while the overlay is rendered (line 64).
OverlayClick(target) ==
    /\ Idle
    /\ nEvents < MaxEvents
    /\ OverlayShown
    /\ showModal' = Dispatch(target).visible
    /\ handlersRun' = Dispatch(target).ran
    /\ lastEvent' = target
    /\ dismissed' = (dismissed \/ target \in {"backdrop", "close"})
    /\ nEvents' = nEvents + 1
    /\ UNCHANGED <<courses, loading, error, selectedCourse, pc, hpc, outcome,
                   mounted, faulted, requests, lateSetterCalls, unmountedPending,
                   lastClicked>>

----------------------------------------------------------------------------
Next ==
    \/ Mount
    \/ Settle
    \/ L16
    \/ L17
    \/ L19
    \/ L20
    \/ Unmount
    \/ \E i \in 1..MaxLen : CardClick(i)
    \/ L47
    \/ \E target \in OverlayTargets : OverlayClick(target)

Spec == Init /\ [][Next]_vars

\* The event loop runs what is ready: the effect after the first render, the
\* continuation of a settled await, the rest of a started handler.  Nothing
\* makes the request settle (no timeout), the user click or the host unmount.
Fairness ==
    /\ WF_vars(Mount)
    /\ WF_vars(L16)
    /\ WF_vars(L17)
    /\ WF_vars(L19)
    /\ WF_vars(L20)
    /\ WF_vars(L47)

FairSpec == Spec /\ Fairness

----------------------------------------------------------------------------
\* The basic variant (src/frontend/src/App.jsx): the same three hooks and the
\* same effect, no selection state and no click handlers.  It is written over
\* the variables it shares with the detail-capable variant, with its own line
\* numbers as positions.
BasicPcOf(p) ==
    CASE p = "l15" -> "b13"      \* await axios.get          App.jsx:13
      [] p = "l16" -> "b14"      \* setCourses               App.jsx:14
      [] p = "l17" -> "b15"      \* setLoading(false)        App.jsx:15
      [] p = "l19" -> "b17"      \* setError                 App.jsx:17
      [] p = "l20" -> "b18"      \* setLoading(false)        App.jsx:18
      [] OTHER -> p              \* "init", "done"

basicVars == <<courses, loading, error, BasicPcOf(pc), outcome, mounted, faulted>>

\* The render function of the basic variant (App.jsx:25-54).
BasicRender ==
    IF loading THEN [view |-> "loading", message |-> "", cards |-> <<>>]
    ELSE IF Truthy(error)
         THEN [view |-> "error", message |-> error.value, cards |-> <<>>]
    ELSE IF courses.type # "array"
         THEN [view |-> "fault", message |-> "", cards |-> <<>>]
    ELSE [view |-> "collection", message |-> "", cards |-> courses.items]

BasicScreen ==
    IF Live THEN BasicRender ELSE [view |-> "none", message |-> "", cards |-> <<>>]

BasicInit ==
    /\ courses = Arr(<<>>)
    /\ loading = TRUE
    /\ error = Null
    /\ BasicPcOf(pc) = "init"
    /\ outcome = Pending
    /\ mounted = TRUE
    /\ faulted = FALSE

\* useEffect(..., [])   (App.jsx:10-13, 22-23)
BasicMount ==
    /\ BasicPcOf(pc) = "init"
    /\ BasicPcOf(pc') = "b13"
    /\ UNCHANGED <<courses, loading, error, outcome, mounted, faulted>>

\* await axios.get(...) settles   (App.jsx:13)
BasicSettle ==
    /\ BasicPcOf(pc) = "b13"
    /\ \/ \E b \in Bodies : outcome' = Resolved(b) /\ BasicPcOf(pc') = "b14"
       \/ \E d \in FailureDetails : outcome' = Rejected(d) /\ BasicPcOf(pc') = "b17"
    /\ UNCHANGED <<courses, loading, error, mounted, faulted>>

\* setCourses(response.data)   (App.jsx:14)
BasicL14 ==
    /\ BasicPcOf(pc) = "b14"
    /\ courses' = IF Live THEN outcome.data ELSE courses
    /\ BasicPcOf(pc') = "b15"
    /\ UNCHANGED <<loading, error, outcome, mounted, faulted>>

\* setLoading(false)   (App.jsx:15); the render may throw at courses.map (App.jsx:39)
BasicL15 ==
    /\ BasicPcOf(pc) = "b15"
    /\ loading' = IF Live THEN FALSE ELSE loading
    /\ IF Live /\ courses.type # "array"
       THEN faulted' = TRUE /\ BasicPcOf(pc') \in {"b17", "done"}
       ELSE faulted' = faulted /\ BasicPcOf(pc') = "done"
    /\ UNCHANGED <<courses, error, outcome, mounted>>

\* setError('Failed to fetch courses')   (App.jsx:17)
BasicL17 ==
    /\ BasicPcOf(pc) = "b17"
    /\ error' = IF Live THEN Str("Failed to fetch courses") ELSE error
    /\ BasicPcOf(pc') = "b18"
    /\ UNCHANGED <<courses, loading, outcome, mounted, faulted>>

\* setLoading(false)   (App.jsx:18)
BasicL18 ==
    /\ BasicPcOf(pc) = "b18"
    /\ loading' = IF Live THEN FALSE ELSE loading
    /\ BasicPcOf(pc') = "done"
    /\ UNCHANGED <<courses, error, outcome, mounted, faulted>>

\* The host tears the component down.
BasicUnmount ==
    /\ BasicPcOf(pc) \in {"b13", "done"}
    /\ mounted
    /\ ~faulted
    /\ mounted' = FALSE
    /\ UNCHANGED <<courses, loading, error, outcome, faulted>>
    /\ BasicPcOf(pc') = BasicPcOf(pc)

BasicNext ==
    \/ BasicMount
    \/ BasicSettle
    \/ BasicL14
    \/ BasicL15
    \/ BasicL17
    \/ BasicL18
    \/ BasicUnmount

BasicSpec == BasicInit /\ [][BasicNext]_basicVars

----------------------------------------------------------------------------
\* Properties.

Range(f) == { f[i] : i \in DOMAIN f }

LoadingViewRendered == Screen.view = "loading"
ErrorViewRendered == Screen.view = "error"
CollectionViewRendered == Screen.view = "collection"

ViewsRendered ==
    (IF LoadingViewRendered THEN 1 ELSE 0) + (IF ErrorViewRendered THEN 1 ELSE 0)
        + (IF CollectionViewRendered THEN 1 ELSE 0)

\* The request settled otherwise than with a success status carrying a collection.
SettledNotCollection ==
    \/ outcome.kind = "rejected"
    \/ outcome.kind = "resolved" /\ outcome.data.type # "array"

SettledEmpty ==
    /\ outcome.kind = "resolved"
    /\ outcome.data.type = "array"
    /\ outcome.data.items = <<>>

\* The click just taken (in a step) is a new click on `targets`.
Clicked(targets) == nEvents' = nEvents + 1 /\ lastEvent' \in targets

\* Overlay targets that lie within the overlay content (modal-content).
WithinContent == { t \in OverlayTargets : "modal-content" \in Range(Path(t)) }

\* C1: in every state of a component the host has not torn down, exactly one
\* of the loading view, the error view and the collection view is rendered.
C1_ExactlyOneView == mounted => ViewsRendered = 1

\* C2: the fetch state starts as Pending and only moves forward: once it is
\* Ready or Failed, no step changes it or the value it carries.
C2_ForwardOnly ==
    /\ FetchState = "Pending"
    /\ [][FetchState # "Pending" =>
             /\ FetchState' = FetchState
             /\ UNCHANGED <<loading, error, courses>>]_vars

C2_Witness ==
    /\ pc = "done"
    /\ FetchState = "Ready"
    /\ dismissed
    /\ ~mounted

\* C3: every settlement other than a success status with a collection body
\* ends Failed with the generic message, in the error view, without a fault.
C3_NonCollectionFails ==
    (pc = "done" /\ mounted /\ SettledNotCollection) =>
        /\ FetchState = "Failed"
        /\ error = Str(GenericMessage)
        /\ ErrorViewRendered
        /\ ~faulted

\* C4: after a failed request the component state is the same for every
\* failure detail: error holds the fixed generic message, and the error view
\* shows it with no card grid.
C4_FailureMasked ==
    (pc = "done" /\ outcome.kind = "rejected" /\ ~unmountedPending) =>
        /\ state = <<Arr(<<>>), FALSE, Str(GenericMessage), Null, FALSE>>
        /\ mounted => /\ ErrorViewRendered
                      /\ Screen.message = GenericMessage
                      /\ ~CollectionViewRendered
                      /\ Screen.cards = <<>>

C4_Witness ==
    /\ pc = "done"
    /\ outcome = Rejected("Request failed with status code 500")
    /\ ErrorViewRendered

\* C5: when the component was unmounted while the request was pending, the
\* continuation invokes no setter after the teardown.
C5_NoSetterAfterTeardown == unmountedPending => lateSetterCalls = 0

\* C6 (as stated): between handlers, the overlay visibility flag is true
\* if and only if the selected course is non-empty.
C6_VisibleIffSelected ==
    hpc = "idle" => (showModal <=> selectedCourse # Null)

\* C6 (amended): between handlers, the visibility flag is true if and only if
\* a course is selected and no backdrop or close click followed the last card
\* click.
C6_VisibleIffSelectedNotDismissed ==
    hpc = "idle" => (showModal <=> (selectedCourse # Null /\ ~dismissed))

C6_Witness ==
    /\ hpc = "idle"
    /\ dismissed
    /\ selectedCourse # Null
    /\ ~showModal

\* C7: in every state, also between the two setter calls of a card click,
\* visible implies a selected course; before any click the selection state is
\* selected = none, visible = false.
C7_VisibleImpliesSelected ==
    /\ showModal => selectedCourse # Null
    /\ nEvents = 0 => (selectedCourse = Null /\ ~showModal)

C7_Witness ==
    /\ hpc = "l47"
    /\ selectedCourse # Null
    /\ ~showModal

\* C8: a backdrop click and a close-control click, taken while the overlay is
\* shown, both end with visible = false, make the same transition, and leave
\* the selected course, the collection and the fetch state unchanged.
C8_DismissFrame ==
    [][Clicked({"backdrop", "close"}) =>
          /\ OverlayShown
          /\ ~showModal'
          /\ Dispatch("backdrop").visible = Dispatch("close").visible
          /\ UNCHANGED <<selectedCourse, courses, loading, error>>
          /\ FetchState' = FetchState]_vars

C8_Witness ==
    /\ lastEvent = "close"
    /\ ~showModal
    /\ selectedCourse # Null
    /\ CollectionViewRendered

\* C9 (as stated): a click whose target lies within the overlay content never
\* reaches the backdrop's handler and leaves visible true and the state
\* unchanged.
C9_ContentClickKeepsOpen ==
    [][Clicked(WithinContent) =>
          /\ "modal-overlay" \notin Range(handlersRun')
          /\ showModal'
          /\ UNCHANGED state]_vars

\* C9 (amended): a click whose target lies within the overlay content never
\* reaches the backdrop's handler; unless the target is the close control, it
\* leaves visible true and the state unchanged.
C9_ContentClickInert ==
    [][Clicked(WithinContent) =>
          /\ "modal-overlay" \notin Range(handlersRun')
          /\ lastEvent' # "close" => (showModal' /\ UNCHANGED state)]_vars

C9_Witness ==
    /\ lastEvent = "content"
    /\ handlersRun = <<"modal-content">>
    /\ showModal
    /\ OverlayShown

\* C10: after a success with an empty collection the error stays null and the
\* error view is never rendered; once the continuation is done the state is
\* Ready and the collection view is rendered with zero cards.
C10_EmptyCollectionReady ==
    SettledEmpty =>
        /\ error = Null
        /\ ~ErrorViewRendered
        /\ (pc = "done" /\ mounted) =>
              /\ FetchState = "Ready"
              /\ CollectionViewRendered
              /\ Screen.cards = <<>>

C10_Witness ==
    /\ SettledEmpty
    /\ pc = "done"
    /\ CollectionViewRendered
    /\ Screen.cards = <<>>

\* C11: over one lifetime exactly one request is issued, at initialization;
\* no later step (render, click, dismissal, settlement) issues another.
C11_ExactlyOneRequest ==
    /\ [](requests = (IF pc = "init" THEN 0 ELSE 1))
    /\ [][requests' # requests => (pc = "init" /\ pc' = "l15")]_vars

C11_Witness ==
    /\ requests = 1
    /\ pc = "done"
    /\ lastEvent = "backdrop"
    /\ nEvents >= 3

\* C12: a click on the card of course c sets selected = c and then
\* visible = true, and neither step changes the collection, the loading flag,
\* the error value or the number of requests issued.
C12_CardClickFrame ==
    /\ [][Clicked({"card"}) =>
             /\ lastClicked' \in Range(courses.items)
             /\ selectedCourse' = lastClicked'
             /\ hpc' = "l47"
             /\ UNCHANGED <<courses, loading, error, requests>>]_vars
    /\ [][hpc = "l47" =>
             /\ hpc' = "idle"
             /\ showModal'
             /\ selectedCourse' = lastClicked
             /\ UNCHANGED <<selectedCourse, courses, loading, error, requests>>]_vars

C12_Witness ==
    /\ hpc = "idle"
    /\ lastEvent = "card"
    /\ showModal
    /\ Len(courses.items) = 2
    /\ courses.items[1] # courses.items[2]
    /\ selectedCourse = courses.items[2]

\* C13: while the request is pending, and between the continuation's two
\* setter calls (setCourses or setError, then setLoading(false)), a mounted
\* component renders the loading view.
C13_LoadingUntilSettled ==
    (mounted /\ pc \in {"init", "l15", "l17", "l20"}) => LoadingViewRendered

\* C14: once the request has settled on a mounted component, the error view
\* or the collection view is eventually rendered, and after that the loading
\* view is never rendered again; while the request has not settled, a mounted
\* component renders the loading view.
C14_SettledLeadsToView ==
    /\ []((mounted /\ outcome.kind # "pending") =>
             <>(ErrorViewRendered \/ CollectionViewRendered))
    /\ [][(ErrorViewRendered \/ CollectionViewRendered) =>
             ~LoadingViewRendered']_vars
    /\ []((mounted /\ outcome.kind = "pending") => LoadingViewRendered)

\* C15: for every integer difficulty_rating r in 0..5 of the course in the
\* overlay, the rating-bar fill computed as r / 5 * 100 in binary64 equals
\* 20 * r exactly (0 for 0, 60 for 3, 100 for 5) and lies in 0..100.
C15_RatingFill ==
    OverlayShown =>
        \E r \in {Screen.overlay.difficulty_rating}, w \in {RatingBarWidth} :
           /\ r \in 0..MaxRating
           /\ w = FromInt(20 * r)
           /\ IntValue(w) \in 0..100
           /\ r = 0 => IntValue(w) = 0
           /\ r = 3 => IntValue(w) = 60
           /\ r = 5 => IntValue(w) = 100

C15_Witness ==
    /\ OverlayShown
    /\ Screen.overlay.difficulty_rating = 3
    /\ IntValue(RatingBarWidth) = 60

\* C16: whenever the overlay is rendered, loading is false, error is null,
\* the grid is rendered and the selected course is an element of the loaded
\* collection; in the Pending and Failed states no overlay is rendered.
C16_OverlayOnlyWhenReady ==
    /\ Screen.overlay # Null =>
          /\ ~loading
          /\ error = Null
          /\ FetchState = "Ready"
          /\ CollectionViewRendered
          /\ Screen.cards = courses.items
          /\ selectedCourse \in Range(courses.items)
          /\ Screen.overlay = selectedCourse
    /\ FetchState \in {"Pending", "Failed"} => Screen.overlay = Null

C16_Witness ==
    /\ Screen.overlay # Null
    /\ Len(courses.items) = 2
    /\ selectedCourse = courses.items[2]
    /\ lastEvent = "content"

\* C17: the overlay displays the course of the most recently clicked card; a
\* dismissal keeps that course stored while hidden, and the next card click
\* replaces it.
C17_OverlayShowsLastClicked ==
    /\ selectedCourse = lastClicked
    /\ OverlayShown => Screen.overlay = lastClicked

C17_Witness ==
    /\ OverlayShown
    /\ dismissed = FALSE
    /\ nEvents >= 3
    /\ Len(courses.items) = 2
    /\ courses.items[1] # courses.items[2]
    /\ Screen.overlay = courses.items[1]

\* What the detail-capable variant shows of the three views: the view, the
\* error message and the cards of the grid in order.
ProjectedScreen ==
    [view |-> Screen.view, message |-> Screen.message, cards |-> Screen.cards]

\* C18: projected onto (courses, loading, error) and the fetch lifecycle, every
\* behaviour of the detail-capable variant is a behaviour of the basic variant
\* (card clicks and dismissals are stuttering steps), and in every state its
\* loading view, error view or grid is what the basic variant renders.
C18_RefinesBasic ==
    /\ BasicSpec
    /\ [](ProjectedScreen = BasicScreen)

C18_Witness ==
    /\ lastEvent = "backdrop"
    /\ nEvents >= 3
    /\ CollectionViewRendered
    /\ Len(BasicScreen.cards) = 2
    /\ BasicScreen.cards[1] # BasicScreen.cards[2]
    /\ selectedCourse = BasicScreen.cards[2]

====
